---- MODULE Spec2Model ----
(***************************************************************************)
(* Request gate (origin / protocol-version / bearer checks) in its two     *)
(* adapters, the configuration reader that feeds it, and the session       *)
(* stores (MemorySessionStore, KvSessionStore) of the MCP server.          *)
(*                                                                         *)
(* Strings that the code takes apart (the Authorization header, the        *)
(* bearer secret) are sequences of atoms: an atom is one whitespace        *)
(* character, one token character, or the scheme word in one of two        *)
(* letter cases.  Optional values are sequences of length 0 (absent) or 1. *)
(***************************************************************************)
EXTENDS Integers, Sequences, FiniteSets, TLC

VARIABLES
    config,          \* UnifiedConfig the adapters were created with
    req,             \* the request being handled (headers)
    honoResp,        \* outcome of the chained middleware for req
    workersResp,     \* outcome of checkAuthAndChallenge for req
    now,             \* Date.now()
    storeKind,       \* which SessionStore the deployment uses: "memory" or "kv"
    hasFallback,     \* KvOptions.fallback is set
    sessions,        \* MemorySessionStore.sessions
    cleanupInterval, \* MemorySessionStore.cleanupInterval is non-null
    kvData,          \* contents of the external KV namespace
    prevOp,          \* the store call completed before lastOp
    lastOp,          \* the store call completed last
    policy,          \* start-up: the environment and what was resolved from it
    runtime,         \* the Node process: its live interval timers, whether it exited
    calls            \* KvSessionStore.ensure calls in flight: where each one is

gateVars == <<config, req, honoResp, workersResp>>
storeVars == <<now, storeKind, hasFallback, sessions, cleanupInterval, kvData, prevOp, lastOp>>
vars == <<config, req, honoResp, workersResp, now, storeKind, hasFallback, sessions,
          cleanupInterval, kvData, prevOp, lastOp, policy, runtime, calls>>

---------------------------------------------------------------------------
(* Bounds *)

MaxAuthLen == 4
MaxTime == 3
TtlMs == 1

---------------------------------------------------------------------------
(* Optional values and strings *)

None == <<>>
Some(v) == <<v>>

Ws == {" ", "\t"}
Atoms == {"Bearer", "bearer", " ", "\t", "x"}

Strings(n) == UNION {[1..k -> Atoms] : k \in 0..n}

LowerAtom(a) == IF a = "Bearer" THEN "bearer" ELSE a

toLowerCase(s) == [i \in 1..Len(s) |-> LowerAtom(s[i])]

RECURSIVE TrimStart(_)
TrimStart(s) ==
    IF s # <<>> /\ s[1] \in Ws THEN TrimStart(Tail(s)) ELSE s

RECURSIVE TrimEnd(_)
TrimEnd(s) ==
    IF s # <<>> /\ s[Len(s)] \in Ws THEN TrimEnd(SubSeq(s, 1, Len(s) - 1)) ELSE s

trim(s) == TrimEnd(TrimStart(s))

\* String.prototype.split(' '): the pieces between single space characters
RECURSIVE split(_)
split(s) ==
    IF \A i \in 1..Len(s) : s[i] # " "
    THEN <<s>>
    ELSE LET i == CHOOSE j \in 1..Len(s) :
                      s[j] = " " /\ \A k \in 1..(j - 1) : s[k] # " "
         IN  <<SubSeq(s, 1, i - 1)>> \o split(SubSeq(s, i + 1, Len(s)))

splitLimit(s, n) ==
    LET p == split(s) IN SubSeq(p, 1, IF Len(p) < n THEN Len(p) ELSE n)

\* a JavaScript value used as a condition: undefined and '' are falsy
Falsy(o) == o = None \/ o = Some(<<>>)

---------------------------------------------------------------------------
(* Configuration: parseConfig and what it reads *)

Undefined == <<"undefined", "">>
JsString(s) == <<"string", s>>
JsBool(b) == <<"boolean", b>>

Secret == <<"x">>

Envs ==
    [AUTH_STRATEGY : {Undefined, JsString("none"), JsString("NONE"), JsString("bearer")},
     AUTH_ENABLED  : {Undefined, JsString("true"), JsString("TRUE"), JsString("false"),
                      JsBool("true"), JsBool("false")},
     BEARER_TOKEN  : {None, Some(<<>>), Some(Secret)},
     NODE_ENV      : {"development", "production"}]

LowerWord(w) ==
    CASE w = "NONE" -> "none"
      [] w = "TRUE" -> "true"
      [] OTHER -> w

\* String(value || 'false').toLowerCase() === 'true'
parseBoolean(v) ==
    LET str == IF v = Undefined \/ v = JsBool("false") \/ v = JsString("")
               THEN "false" ELSE v[2]
    IN  LowerWord(str) = "true"

parseAuthStrategy(env) ==
    LET explicit == IF env.AUTH_STRATEGY = Undefined
                    THEN Undefined
                    ELSE JsString(LowerWord(env.AUTH_STRATEGY[2]))
    IN  IF \/ explicit = JsString("none")
           \/ env.AUTH_ENABLED = JsString("false")
           \/ env.AUTH_ENABLED = JsBool("false")
        THEN "none"
        ELSE IF ~Falsy(env.BEARER_TOKEN) \/ parseBoolean(env.AUTH_ENABLED)
             THEN "bearer"
             ELSE "none"

ProtocolVersionDefault == "2025-06-18"

\* AUTH_ENABLED: parseBoolean(env.AUTH_ENABLED) in place of authStrategy === 'bearer'
parseConfig_EnabledFromEnv(env) ==
    LET authStrategy == parseAuthStrategy(env)
    IN  [NODE_ENV             |-> env.NODE_ENV,
         MCP_PROTOCOL_VERSION |-> ProtocolVersionDefault,
         AUTH_STRATEGY        |-> authStrategy,
         AUTH_ENABLED         |-> parseBoolean(env.AUTH_ENABLED),
         BEARER_TOKEN         |-> env.BEARER_TOKEN]

parseConfig(env) ==
    LET authStrategy == parseAuthStrategy(env)
    IN  [NODE_ENV             |-> env.NODE_ENV,
         MCP_PROTOCOL_VERSION |-> ProtocolVersionDefault,
         AUTH_STRATEGY        |-> authStrategy,
         AUTH_ENABLED         |-> (authStrategy = "bearer"),
         BEARER_TOKEN         |-> env.BEARER_TOKEN]

---------------------------------------------------------------------------
(* The auth strategy module: parseAuthStrategy, requiresAuth, validateAuthConfig *)

\* parseAuthStrategy of the strategy module, which returns an AuthStrategyConfig
strategyParseAuthStrategy(env) ==
    LET strategy == IF env.AUTH_STRATEGY = Undefined
                    THEN Undefined
                    ELSE JsString(LowerWord(env.AUTH_STRATEGY[2]))
    IN  IF \/ strategy = JsString("none")
           \/ env.AUTH_ENABLED = JsString("false")
           \/ env.AUTH_ENABLED = JsBool("false")
        THEN [type |-> "none", value |-> None]
        ELSE [type |-> "bearer", value |-> env.BEARER_TOKEN]

requiresAuth(cfg) == cfg.type # "none"

\* if (config.type === 'bearer' && config.value === undefined)
validateAuthConfig_MissingOnly(cfg) ==
    IF cfg.type = "bearer" /\ cfg.value = None
    THEN <<"BEARER_TOKEN is required when AUTH_STRATEGY=bearer">>
    ELSE <<>>

validateAuthConfig(cfg) ==
    IF cfg.type = "bearer" /\ Falsy(cfg.value)
    THEN <<"BEARER_TOKEN is required when AUTH_STRATEGY=bearer">>
    ELSE <<>>

---------------------------------------------------------------------------
(* Requests *)

ClientSids == {"s1"}
GenSids == {"u1", "u2"}

Origins == {None, Some("http://127.0.0.1"), Some("http://evil.example")}
ProtocolVersions == {None, Some("2025-06-18"), Some("2024-11-05")}

Requests ==
    [auth    : {None} \cup {Some(s) : s \in Strings(MaxAuthLen)},
     origin  : Origins,
     version : ProtocolVersions,
     sid     : {None} \cup {Some(s) : s \in ClientSids}]

---------------------------------------------------------------------------
(* shared/mcp/security: validateOrigin, validateProtocolVersion,           *)
(* buildUnauthorizedChallenge                                              *)

Loopback == {"http://127.0.0.1"}

OriginError == "Invalid origin"
VersionError == "Unsupported protocol version"

\* the message of the error the two validators throw, None when they return
validateOrigin(r, isDev) ==
    IF r.origin = None \/ isDev \/ r.origin[1] \in Loopback
    THEN None ELSE Some(OriginError)

validateProtocolVersion(r, expected) ==
    IF r.version = None \/ r.version[1] = expected
    THEN None ELSE Some(VersionError)

validate(cfg, r) ==
    LET o == validateOrigin(r, cfg.NODE_ENV = "development")
    IN  IF o # None THEN o ELSE validateProtocolVersion(r, cfg.MCP_PROTOCOL_VERSION)

ChallengeCode == -32000
InternalErrorCode == -32603

buildUnauthorizedChallenge(sid, message) ==
    [status  |-> 401,
     wwwAuth |-> Some(message),
     code    |-> ChallengeCode,
     message |-> message]

---------------------------------------------------------------------------
(* Outcomes of the two adapters *)

Pending == [kind |-> "pending", status |-> 0, wwwAuth |-> None, sid |-> None,
            code |-> 0, message |-> None, authContext |-> None]

Idle == [kind |-> "idle", status |-> 0, wwwAuth |-> None, sid |-> None,
         code |-> 0, message |-> None, authContext |-> None]

\* middleware.security.ts: next() was called
Next_(ctx) == [kind |-> "next", status |-> 0, wwwAuth |-> None, sid |-> None,
               code |-> 0, message |-> None, authContext |-> ctx]

\* checkAuthAndChallenge returned null
Null == [kind |-> "null", status |-> 0, wwwAuth |-> None, sid |-> None,
         code |-> 0, message |-> None, authContext |-> None]

\* the challenge without c.header('Mcp-Session-Id', sid)
challengeResponse_NoSid(sid, message) ==
    LET challenge == buildUnauthorizedChallenge(sid, message)
    IN  [kind |-> "response", status |-> challenge.status,
         wwwAuth |-> challenge.wwwAuth, sid |-> None,
         code |-> challenge.code, message |-> challenge.message,
         authContext |-> None]

challengeResponse(sid, message) ==
    LET challenge == buildUnauthorizedChallenge(sid, message)
    IN  [kind |-> "response", status |-> challenge.status,
         wwwAuth |-> challenge.wwwAuth, sid |-> Some(sid),
         code |-> challenge.code, message |-> challenge.message,
         authContext |-> None]

buildChallengeResponse(sid, message) ==
    LET challenge == buildUnauthorizedChallenge(sid, message)
    IN  [kind |-> "response", status |-> challenge.status,
         wwwAuth |-> challenge.wwwAuth, sid |-> Some(sid),
         code |-> challenge.code, message |-> challenge.message,
         authContext |-> None]

internalError(message) ==
    [kind |-> "response", status |-> 500, wwwAuth |-> None, sid |-> None,
     code |-> InternalErrorCode, message |-> Some(message),
     authContext |-> None]

---------------------------------------------------------------------------
(* Chained middleware: createMcpSecurityMiddleware *)

\* const [scheme, token] = auth.split(' ', 2);
\* scheme?.toLowerCase() === 'bearer' ? token?.trim() : ''
HonoBearer(auth) ==
    LET pieces == splitLimit(auth, 2)
        scheme == pieces[1]
        token  == IF Len(pieces) >= 2 THEN Some(pieces[2]) ELSE None
    IN  IF toLowerCase(scheme) = <<"bearer">>
        THEN (IF token = None THEN None ELSE Some(trim(token[1])))
        ELSE Some(<<>>)

\* if (!config.AUTH_ENABLED || config.AUTH_STRATEGY === 'none')
HonoNoAuth_Inverted(cfg) == cfg.AUTH_ENABLED /\ cfg.AUTH_STRATEGY # "none"

HonoNoAuth(cfg) == ~cfg.AUTH_ENABLED \/ cfg.AUTH_STRATEGY = "none"

\* if (bearer !== config.BEARER_TOKEN)
HonoTokenMismatch_Inverted(bearer, cfg) == bearer = cfg.BEARER_TOKEN

HonoTokenMismatch(bearer, cfg) == bearer # cfg.BEARER_TOKEN

\* a middleware that lets a request through when the session store already
\* knows its session id
HonoAuthorized_KnownSession(cfg, r, uuid) ==
    IF HonoNoAuth(cfg) \/ (r.sid # None /\ r.sid[1] \in DOMAIN sessions)
    THEN Next_(None)
    ELSE LET auth == r.auth
             sid  == IF r.sid # None THEN r.sid[1] ELSE uuid
         IN  IF Falsy(auth)
             THEN challengeResponse(sid, None)
             ELSE LET bearer == HonoBearer(auth[1])
                  IN  IF Falsy(bearer)
                      THEN challengeResponse(sid, Some("Bearer token required"))
                      ELSE IF cfg.AUTH_STRATEGY = "bearer"
                           THEN IF Falsy(cfg.BEARER_TOKEN)
                                THEN challengeResponse(sid, Some("Server misconfigured"))
                                ELSE IF HonoTokenMismatch(bearer, cfg)
                                     THEN challengeResponse(sid, Some("Invalid token"))
                                     ELSE Next_(Some([strategy |-> "bearer",
                                                      authorization |-> auth[1]]))
                           ELSE Next_(None)

HonoAuthorized(cfg, r, uuid) ==
    IF HonoNoAuth(cfg)
    THEN Next_(None)
    ELSE LET auth == r.auth
             sid  == IF r.sid # None THEN r.sid[1] ELSE uuid
         IN  IF Falsy(auth)
             THEN challengeResponse(sid, None)
             ELSE LET bearer == HonoBearer(auth[1])
                  IN  IF Falsy(bearer)
                      THEN challengeResponse(sid, Some("Bearer token required"))
                      ELSE IF cfg.AUTH_STRATEGY = "bearer"
                           THEN IF Falsy(cfg.BEARER_TOKEN)
                                THEN challengeResponse(sid, Some("Server misconfigured"))
                                ELSE IF HonoTokenMismatch(bearer, cfg)
                                     THEN challengeResponse(sid, Some("Invalid token"))
                                     ELSE Next_(Some([strategy |-> "bearer",
                                                      authorization |-> auth[1]]))
                           ELSE Next_(None)

HonoMiddleware(cfg, r, uuid) ==
    LET thrown == validate(cfg, r)
    IN  IF thrown # None
        THEN internalError(thrown[1])
        ELSE HonoAuthorized(cfg, r, uuid)

---------------------------------------------------------------------------
(* Single-shot handler: checkAuthAndChallenge *)

\* authHeader?.match(/^\s*Bearer\s+(.+)$/i)?.[1]?.trim()
WorkersBearer(authHeader) ==
    IF authHeader = None
    THEN None
    ELSE LET s    == TrimStart(authHeader[1])
             rest == IF s = <<>> THEN <<>> ELSE Tail(s)
             tok  == TrimStart(rest)
         IN  IF s = <<>> \/ LowerAtom(s[1]) # "bearer"
             THEN None
             ELSE IF rest = <<>> \/ rest[1] \notin Ws \/ Len(rest) < 2
                  THEN None
                  ELSE IF tok # <<>>
                       THEN Some(trim(tok))
                       ELSE Some(trim(<<rest[Len(rest)]>>))

\* if (!config.AUTH_ENABLED || config.AUTH_STRATEGY === 'none')
WorkersNoAuth_Inverted(cfg) == cfg.AUTH_ENABLED /\ cfg.AUTH_STRATEGY # "none"

WorkersNoAuth(cfg) == ~cfg.AUTH_ENABLED \/ cfg.AUTH_STRATEGY = "none"

\* if (bearer !== config.BEARER_TOKEN)
WorkersTokenMismatch_Inverted(bearer, cfg) == bearer = cfg.BEARER_TOKEN

WorkersTokenMismatch(bearer, cfg) == bearer # cfg.BEARER_TOKEN

checkAuthAndChallenge(cfg, r, sid) ==
    LET thrown == validate(cfg, r)
    IN  IF thrown # None
        THEN buildChallengeResponse(sid, thrown)
        ELSE IF WorkersNoAuth(cfg)
        THEN Null
        ELSE LET bearer == WorkersBearer(r.auth)
             IN  IF Falsy(bearer)
                 THEN buildChallengeResponse(sid, None)
                 ELSE IF cfg.AUTH_STRATEGY = "bearer"
                      THEN IF Falsy(cfg.BEARER_TOKEN)
                           THEN buildChallengeResponse(sid,
                                    Some("Server misconfigured: BEARER_TOKEN not set"))
                           ELSE IF WorkersTokenMismatch(bearer, cfg)
                                THEN buildChallengeResponse(sid, Some("Invalid token"))
                                ELSE Null
                      ELSE Null

\* the caller of checkAuthAndChallenge supplies the session id
WorkersSid(r, uuid) == IF r.sid # None THEN r.sid[1] ELSE uuid

---------------------------------------------------------------------------
(* Session stores *)

SessionIds == {"s1", "s2"}

\* the KV-backed store is exercised with one session id
KvSessionIds == {"s1"}

\* a completed call of the SessionStore interface: the operation, its session
\* id, the record it concerns (put: the argument; get: the result; ensure:
\* the record the store holds afterwards), what the external KV service did
\* during the call, and the time of the call
NoOp == [op |-> "none", id |-> "", rec |-> None, kv |-> "", at |-> 0]

Op(o, id, rec, kv, t) == [op |-> o, id |-> id, rec |-> rec, kv |-> kv, at |-> t]

Remove(f, k) == [x \in (DOMAIN f) \ {k} |-> f[x]]
Set(f, k, v) == [x \in (DOMAIN f) \cup {k} |-> IF x = k THEN v ELSE f[x]]

(* MemorySessionStore *)

\* Date.now() >= entry.expiresAt in place of Date.now() > entry.expiresAt
Expired_AtBoundary(entry, t) == t >= entry.expiresAt

Expired(entry, t) == t > entry.expiresAt

\* ensure that stores expiresAt: Date.now() for a new session
memEnsure_NoTtl(s, id, t) ==
    IF id \notin DOMAIN s
    THEN Set(s, id, [record |-> [created_at |-> t], expiresAt |-> t])
    ELSE s

memEnsure(s, id, t) ==
    IF id \notin DOMAIN s
    THEN Set(s, id, [record |-> [created_at |-> t], expiresAt |-> t + TtlMs])
    ELSE s

\* the map after get, and the value get returns
memGetMap(s, id, t) ==
    IF id \in DOMAIN s /\ Expired(s[id], t) THEN Remove(s, id) ELSE s

memGet(s, id, t) ==
    IF id \notin DOMAIN s THEN None
    ELSE IF Expired(s[id], t) THEN None
    ELSE Some(s[id].record)

memPut(s, id, value, t) ==
    Set(s, id, [record |-> value, expiresAt |-> t + TtlMs])

\* delete that clears the whole map
memDelete_Clear(s, id) == <<>>

memDelete(s, id) == Remove(s, id)

\* sweep that tests now >= entry.expiresAt
memSweep_AtBoundary(s, t) ==
    [k \in {x \in DOMAIN s : t < s[x].expiresAt} |-> s[k]]

memSweep(s, t) ==
    [k \in {x \in DOMAIN s : ~Expired(s[x], t)} |-> s[k]]

\* startCleanup and stopCleanup: the cleanupInterval field (non-null or
\* null) and the number of interval timers the process has running
startCleanup(interval, timers) ==
    IF interval
    THEN [cleanupInterval |-> interval, timers |-> timers]
    ELSE [cleanupInterval |-> TRUE, timers |-> timers + 1]

\* stopCleanup that sets the field to null without clearInterval
stopCleanup_KeepsTimer(interval, timers) ==
    [cleanupInterval |-> FALSE, timers |-> timers]

stopCleanup(interval, timers) ==
    IF interval
    THEN [cleanupInterval |-> FALSE, timers |-> timers - 1]
    ELSE [cleanupInterval |-> interval, timers |-> timers]

\* the store and the process right after new MemorySessionStore()
Constructed == startCleanup(FALSE, 0)

(* KvSessionStore over the external KV namespace *)

SESSION_TTL_SECONDS == TtlMs

key(sessionId) == <<"session:", sessionId>>

stringify(value) == <<"json", value.created_at>>
parse(text) == [created_at |-> text[2]]

encrypt(plaintext) == <<"enc", plaintext>>
decrypt(ciphertext) == ciphertext[2]

\* KVNamespace.get: the stored value, null for a missing or expired key
kvRead(kv, k, t) ==
    IF k \in DOMAIN kv /\ t < kv[k].expiration THEN Some(kv[k].value) ELSE None

GetOutcomes == {"ok", "kvThrows", "decryptThrows"}
PutOutcomes == {"ok", "kvThrows", "encryptThrows"}
DeleteOutcomes == {"ok", "kvThrows"}

\* fallback?.get(sessionId) ?? null
fallbackGet(fb, s, id, t) == IF fb THEN memGet(s, id, t) ELSE None
fallbackGetMap(fb, s, id, t) == IF fb THEN memGetMap(s, id, t) ELSE s

\* true when KvSessionStore.get answers from the KV namespace
kvGetHit(kv, id, t, outcome) ==
    outcome = "ok" /\ kvRead(kv, key(id), t) # None

\* get whose catch block returns null without asking the fallback
kvGet_CatchReturnsNull(fb, kv, s, id, t, outcome) ==
    IF outcome = "kvThrows"
    THEN None
    ELSE LET raw == kvRead(kv, key(id), t)
         IN  IF raw = None
             THEN fallbackGet(fb, s, id, t)
             ELSE IF outcome = "decryptThrows"
                  THEN None
                  ELSE Some(parse(decrypt(raw[1])))

kvGet(fb, kv, s, id, t, outcome) ==
    IF outcome = "kvThrows"
    THEN fallbackGet(fb, s, id, t)
    ELSE LET raw == kvRead(kv, key(id), t)
         IN  IF raw = None
             THEN fallbackGet(fb, s, id, t)
             ELSE IF outcome = "decryptThrows"
                  THEN fallbackGet(fb, s, id, t)
                  ELSE Some(parse(decrypt(raw[1])))

kvGetMap(fb, kv, s, id, t, outcome) ==
    IF kvGetHit(kv, id, t, outcome) THEN s ELSE fallbackGetMap(fb, s, id, t)

\* the KV namespace and the fallback map after KvSessionStore.put
kvPutKv(kv, id, value, t, outcome) ==
    IF outcome = "ok"
    THEN Set(kv, key(id), [value |-> encrypt(stringify(value)),
                           expiration |-> t + SESSION_TTL_SECONDS])
    ELSE kv

\* put whose catch block does not write to the fallback
kvPutMap_NoCatchWrite(fb, s, id, value, t, outcome) ==
    IF outcome = "ok" /\ fb THEN memPut(s, id, value, t) ELSE s

\* put that writes to the fallback only in its catch block
kvPutMap_NoMirror(fb, s, id, value, t, outcome) ==
    IF outcome = "ok"
    THEN s
    ELSE (IF fb THEN memPut(s, id, value, t) ELSE s)

kvPutMap(fb, s, id, value, t, outcome) ==
    IF outcome = "ok"
    THEN (IF fb THEN memPut(s, id, value, t) ELSE s)
    ELSE (IF fb THEN memPut(s, id, value, t) ELSE s)

kvDeleteKv(kv, id, outcome) ==
    IF outcome = "ok" THEN Remove(kv, key(id)) ELSE kv

\* delete that leaves the fallback alone
kvDeleteMap_KeepsFallback(fb, s, id) == s

kvDeleteMap(fb, s, id) == IF fb THEN memDelete(s, id) ELSE s

\* the record a store holds for id: the KV entry when there is a live one,
\* else the entry of the memory map
Stored(kind, kv, s, id, t) ==
    IF kind = "kv" /\ kvRead(kv, key(id), t) # None
    THEN Some(parse(decrypt(kvRead(kv, key(id), t)[1])))
    ELSE IF id \in DOMAIN s THEN Some(s[id].record) ELSE None

---------------------------------------------------------------------------
(* The gate as a state machine *)

NoRequest == [auth |-> None, origin |-> None, version |-> None, sid |-> None]

\* the flows that call KvSessionStore.ensure concurrently
Callers == {"c1", "c2"}

\* an ensure call: not started, suspended after its get found nothing, or
\* returned
NoCall == [pc |-> "idle", id |-> ""]
NoCalls == [c \in Callers |-> NoCall]

\* nothing has been read from the environment
PolicyIdle == [stage |-> "idle", env |-> None, config |-> None,
               strategyConfig |-> None, errors |-> None]

StoreIdle ==
    /\ policy = PolicyIdle
    /\ calls = NoCalls
    /\ runtime = [timers |-> Constructed.timers, exited |-> FALSE]
    /\ now = 0
    /\ storeKind = "memory"
    /\ hasFallback = FALSE
    /\ sessions = <<>>
    /\ cleanupInterval = Constructed.cleanupInterval
    /\ kvData = <<>>
    /\ prevOp = NoOp
    /\ lastOp = NoOp

Init ==
    /\ \E env \in Envs : config = parseConfig(env)
    /\ req = NoRequest
    /\ honoResp = Idle
    /\ workersResp = Idle
    /\ StoreIdle

Receive ==
    /\ honoResp = Idle
    /\ workersResp = Idle
    /\ \E r \in Requests : req' = r
    /\ honoResp' = Pending
    /\ workersResp' = Pending
    /\ UNCHANGED <<config>>
    /\ UNCHANGED <<storeVars, policy, runtime, calls>>

HonoRequest ==
    /\ honoResp.kind = "pending"
    /\ \E uuid \in GenSids : honoResp' = HonoMiddleware(config, req, uuid)
    /\ UNCHANGED <<config, req, workersResp>>
    /\ UNCHANGED <<storeVars, policy, runtime, calls>>

WorkersRequest ==
    /\ workersResp.kind = "pending"
    /\ \E uuid \in GenSids :
           workersResp' = checkAuthAndChallenge(config, req, WorkersSid(req, uuid))
    /\ UNCHANGED <<config, req, honoResp>>
    /\ UNCHANGED <<storeVars, policy, runtime, calls>>

\* both responses have been sent; the gate keeps nothing of the request
Respond ==
    /\ honoResp.kind \notin {"pending", "idle"}
    /\ workersResp.kind \notin {"pending", "idle"}
    /\ req' = NoRequest
    /\ honoResp' = Idle
    /\ workersResp' = Idle
    /\ UNCHANGED <<config>>
    /\ UNCHANGED <<storeVars, policy, runtime, calls>>

Next == Receive \/ HonoRequest \/ WorkersRequest \/ Respond

Spec == Init /\ [][Next]_vars

---------------------------------------------------------------------------
(* Requests in sequence, with the session store filling up *)

\* requests that differ in each header the gate reads
SessionRequests ==
    [auth    : {None, Some(<<"x">>), Some(<<"Bearer", " ", "x">>),
                Some(<<"Bearer", " ", "x", "x">>)},
     origin  : Origins,
     version : ProtocolVersions,
     sid     : {None} \cup {Some(s) : s \in ClientSids}]

ReceiveSession ==
    /\ honoResp = Idle
    /\ workersResp = Idle
    /\ \E r \in SessionRequests : req' = r
    /\ honoResp' = Pending
    /\ workersResp' = Pending
    /\ UNCHANGED <<config>>
    /\ UNCHANGED <<storeVars, policy, runtime, calls>>

\* an admitted request reaches the handler, which ensures the session of the
\* request's session id; then the response is sent
Serve ==
    /\ honoResp.kind \notin {"pending", "idle"}
    /\ workersResp.kind \notin {"pending", "idle"}
    /\ IF (honoResp.kind = "next" \/ workersResp.kind = "null") /\ req.sid # None
       THEN /\ sessions' = memEnsure(sessions, req.sid[1], now)
            /\ prevOp' = lastOp
            /\ lastOp' = Op("ensure", req.sid[1],
                            Stored(storeKind, kvData, sessions', req.sid[1], now), "", now)
       ELSE UNCHANGED <<sessions, prevOp, lastOp>>
    /\ req' = NoRequest
    /\ honoResp' = Idle
    /\ workersResp' = Idle
    /\ UNCHANGED <<config, now, storeKind, hasFallback, cleanupInterval, kvData>>
    /\ UNCHANGED <<policy, runtime, calls>>

SessionNext == ReceiveSession \/ HonoRequest \/ WorkersRequest \/ Serve

SessionSpec == Init /\ [][SessionNext]_vars

---------------------------------------------------------------------------
(* The session store as a state machine *)

\* an environment that sets none of the variables parseConfig reads
DefaultEnv == [AUTH_STRATEGY |-> Undefined, AUTH_ENABLED |-> Undefined,
               BEARER_TOKEN |-> None, NODE_ENV |-> "development"]

StoreInit ==
    /\ config = parseConfig(DefaultEnv)
    /\ req = NoRequest
    /\ honoResp = Idle
    /\ workersResp = Idle
    /\ now = 0
    /\ \/ storeKind = "memory" /\ hasFallback = FALSE
       \/ storeKind = "kv" /\ hasFallback \in BOOLEAN
    /\ sessions = <<>>
    /\ cleanupInterval = Constructed.cleanupInterval
    /\ runtime = [timers |-> Constructed.timers, exited |-> FALSE]
    /\ calls = NoCalls
    /\ kvData = <<>>
    /\ prevOp = NoOp
    /\ lastOp = NoOp
    /\ policy = PolicyIdle

Logged(op) == prevOp' = lastOp /\ lastOp' = op

Tick ==
    /\ ~runtime.exited
    /\ now < MaxTime
    /\ now' = now + 1
    /\ UNCHANGED <<storeKind, hasFallback, sessions, cleanupInterval, kvData,
                   prevOp, lastOp>>
    /\ UNCHANGED <<gateVars, policy, runtime, calls>>

\* the setInterval callback of startCleanup
Sweep ==
    /\ ~runtime.exited
    /\ runtime.timers > 0
    /\ storeKind = "kv" => hasFallback
    /\ sessions' = memSweep(sessions, now)
    /\ UNCHANGED <<now, storeKind, hasFallback, cleanupInterval, kvData,
                   prevOp, lastOp>>
    /\ UNCHANGED <<gateVars, policy, runtime, calls>>

MemEnsure(id) ==
    /\ ~runtime.exited
    /\ storeKind = "memory"
    /\ sessions' = memEnsure(sessions, id, now)
    /\ Logged(Op("ensure", id, Stored(storeKind, kvData, sessions', id, now), "", now))
    /\ UNCHANGED <<now, storeKind, hasFallback, cleanupInterval, kvData>>
    /\ UNCHANGED <<gateVars, policy, runtime, calls>>

MemGet(id) ==
    /\ ~runtime.exited
    /\ storeKind = "memory"
    /\ sessions' = memGetMap(sessions, id, now)
    /\ Logged(Op("get", id, memGet(sessions, id, now), "", now))
    /\ UNCHANGED <<now, storeKind, hasFallback, cleanupInterval, kvData>>
    /\ UNCHANGED <<gateVars, policy, runtime, calls>>

MemPut(id, value) ==
    /\ ~runtime.exited
    /\ storeKind = "memory"
    /\ sessions' = memPut(sessions, id, value, now)
    /\ Logged(Op("put", id, Some(value), "", now))
    /\ UNCHANGED <<now, storeKind, hasFallback, cleanupInterval, kvData>>
    /\ UNCHANGED <<gateVars, policy, runtime, calls>>

MemDelete(id) ==
    /\ ~runtime.exited
    /\ storeKind = "memory"
    /\ sessions' = memDelete(sessions, id)
    /\ Logged(Op("delete", id, None, "", now))
    /\ UNCHANGED <<now, storeKind, hasFallback, cleanupInterval, kvData>>
    /\ UNCHANGED <<gateVars, policy, runtime, calls>>

KvGet(id, outcome) ==
    /\ ~runtime.exited
    /\ storeKind = "kv"
    /\ sessions' = kvGetMap(hasFallback, kvData, sessions, id, now, outcome)
    /\ Logged(Op("get", id, kvGet(hasFallback, kvData, sessions, id, now, outcome),
                 outcome, now))
    /\ UNCHANGED <<now, storeKind, hasFallback, cleanupInterval, kvData>>
    /\ UNCHANGED <<gateVars, policy, runtime, calls>>

KvPut(id, value, outcome) ==
    /\ ~runtime.exited
    /\ storeKind = "kv"
    /\ kvData' = kvPutKv(kvData, id, value, now, outcome)
    /\ sessions' = kvPutMap(hasFallback, sessions, id, value, now, outcome)
    /\ Logged(Op("put", id, Some(value), outcome, now))
    /\ UNCHANGED <<now, storeKind, hasFallback, cleanupInterval>>
    /\ UNCHANGED <<gateVars, policy, runtime, calls>>

\* ensure: get, then put({created_at: Date.now()}) when get found nothing
KvEnsure(id, getOutcome, putOutcome) ==
    /\ ~runtime.exited
    /\ storeKind = "kv"
    /\ LET existing == kvGet(hasFallback, kvData, sessions, id, now, getOutcome)
           afterGet == kvGetMap(hasFallback, kvData, sessions, id, now, getOutcome)
           value    == [created_at |-> now]
       IN  IF existing = None
           THEN /\ kvData' = kvPutKv(kvData, id, value, now, putOutcome)
                /\ sessions' = kvPutMap(hasFallback, afterGet, id, value, now, putOutcome)
           ELSE /\ kvData' = kvData
                /\ sessions' = afterGet
    /\ Logged(Op("ensure", id, Stored(storeKind, kvData', sessions', id, now),
                 getOutcome, now))
    /\ UNCHANGED <<now, storeKind, hasFallback, cleanupInterval>>
    /\ UNCHANGED <<gateVars, policy, runtime, calls>>

KvDelete(id, outcome) ==
    /\ ~runtime.exited
    /\ storeKind = "kv"
    /\ kvData' = kvDeleteKv(kvData, id, outcome)
    /\ sessions' = kvDeleteMap(hasFallback, sessions, id)
    /\ Logged(Op("delete", id, None, outcome, now))
    /\ UNCHANGED <<now, storeKind, hasFallback, cleanupInterval>>
    /\ UNCHANGED <<gateVars, policy, runtime, calls>>

\* stopCleanup called on the store (or on the fallback of a KV store)
StopCleanup ==
    /\ ~runtime.exited
    /\ storeKind = "kv" => hasFallback
    /\ LET r == stopCleanup(cleanupInterval, runtime.timers)
       IN  /\ cleanupInterval' = r.cleanupInterval
           /\ runtime' = [runtime EXCEPT !.timers = r.timers]
    /\ UNCHANGED <<now, storeKind, hasFallback, sessions, kvData, prevOp, lastOp>>
    /\ UNCHANGED <<gateVars, policy, calls>>

\* gracefulShutdown of the Node entry point: sessionStore.stopCleanup(), then
\* process.exit(0)
GracefulShutdown ==
    /\ ~runtime.exited
    /\ storeKind = "memory"
    /\ LET r == stopCleanup(cleanupInterval, runtime.timers)
       IN  /\ cleanupInterval' = r.cleanupInterval
           /\ runtime' = [timers |-> r.timers, exited |-> TRUE]
    /\ UNCHANGED <<now, storeKind, hasFallback, sessions, kvData, prevOp, lastOp>>
    /\ UNCHANGED <<gateVars, policy, calls>>

\* the records a caller can pass to put at time t
Records(t) == {[created_at |-> c] : c \in 0..t}

StoreNext ==
    \/ Tick
    \/ Sweep
    \/ StopCleanup
    \/ GracefulShutdown
    \/ \E id \in SessionIds : MemEnsure(id)
    \/ \E id \in SessionIds : MemGet(id)
    \/ \E id \in SessionIds, value \in Records(now) : MemPut(id, value)
    \/ \E id \in SessionIds : MemDelete(id)
    \/ \E id \in KvSessionIds, o \in GetOutcomes : KvGet(id, o)
    \/ \E id \in KvSessionIds, value \in Records(now), o \in PutOutcomes :
           KvPut(id, value, o)
    \/ \E id \in KvSessionIds, g \in GetOutcomes, p \in PutOutcomes : KvEnsure(id, g, p)
    \/ \E id \in KvSessionIds, o \in DeleteOutcomes : KvDelete(id, o)

StoreSpec == StoreInit /\ [][StoreNext]_vars

---------------------------------------------------------------------------
(* Concurrent KvSessionStore.ensure calls, one step per await *)

EnsureInit ==
    /\ config = parseConfig(DefaultEnv)
    /\ req = NoRequest
    /\ honoResp = Idle
    /\ workersResp = Idle
    /\ now = 0
    /\ storeKind = "kv"
    /\ hasFallback \in BOOLEAN
    /\ sessions = <<>>
    /\ cleanupInterval = Constructed.cleanupInterval
    /\ runtime = [timers |-> Constructed.timers, exited |-> FALSE]
    /\ calls = NoCalls
    /\ kvData = <<>>
    /\ prevOp = NoOp
    /\ lastOp = NoOp
    /\ policy = PolicyIdle

\* const existing = await this.get(sessionId)
EnsureGet(c, id, outcome) ==
    /\ calls[c].pc = "idle"
    /\ LET existing == kvGet(hasFallback, kvData, sessions, id, now, outcome)
       IN  calls' = [calls EXCEPT ![c] = [pc |-> IF existing = None THEN "absent"
                                                ELSE "returned",
                                          id |-> id]]
    /\ sessions' = kvGetMap(hasFallback, kvData, sessions, id, now, outcome)
    /\ UNCHANGED <<now, storeKind, hasFallback, cleanupInterval, kvData, prevOp, lastOp>>
    /\ UNCHANGED <<gateVars, policy, runtime>>

\* if (!existing) await this.put(sessionId, { created_at: Date.now() })
EnsurePut(c, outcome) ==
    /\ calls[c].pc = "absent"
    /\ LET id    == calls[c].id
           value == [created_at |-> now]
       IN  /\ kvData' = kvPutKv(kvData, id, value, now, outcome)
           /\ sessions' = kvPutMap(hasFallback, sessions, id, value, now, outcome)
           /\ Logged(Op("put", id, Some(value), outcome, now))
    /\ calls' = [calls EXCEPT ![c].pc = "returned"]
    /\ UNCHANGED <<now, storeKind, hasFallback, cleanupInterval>>
    /\ UNCHANGED <<gateVars, policy, runtime>>

EnsureNext ==
    \/ Tick
    \/ \E c \in Callers, id \in KvSessionIds, o \in GetOutcomes : EnsureGet(c, id, o)
    \/ \E c \in Callers, o \in PutOutcomes : EnsurePut(c, o)

EnsureSpec == EnsureInit /\ [][EnsureNext]_vars

---------------------------------------------------------------------------
(* Start-up as a state machine: the environment is read, then resolved *)

PolicyInit ==
    /\ \E env \in Envs : policy = [PolicyIdle EXCEPT !.stage = "env", !.env = Some(env)]
    /\ config = parseConfig(DefaultEnv)
    /\ req = NoRequest
    /\ honoResp = Idle
    /\ workersResp = Idle
    /\ now = 0
    /\ storeKind = "memory"
    /\ hasFallback = FALSE
    /\ sessions = <<>>
    /\ cleanupInterval = Constructed.cleanupInterval
    /\ runtime = [timers |-> Constructed.timers, exited |-> FALSE]
    /\ calls = NoCalls
    /\ kvData = <<>>
    /\ prevOp = NoOp
    /\ lastOp = NoOp

ParseConfig ==
    /\ policy.stage = "env"
    /\ policy' = [policy EXCEPT !.stage = "config",
                                !.config = Some(parseConfig(policy.env[1]))]
    /\ UNCHANGED <<gateVars, storeVars, runtime, calls>>

ParseAuthStrategy ==
    /\ policy.stage = "config"
    /\ policy' = [policy EXCEPT !.stage = "strategy",
                                !.strategyConfig =
                                    Some(strategyParseAuthStrategy(policy.env[1]))]
    /\ UNCHANGED <<gateVars, storeVars, runtime, calls>>

ValidateAuthConfig ==
    /\ policy.stage = "strategy"
    /\ policy' = [policy EXCEPT !.stage = "validated",
                                !.errors =
                                    Some(validateAuthConfig(policy.strategyConfig[1]))]
    /\ UNCHANGED <<gateVars, storeVars, runtime, calls>>

PolicyNext == ParseConfig \/ ParseAuthStrategy \/ ValidateAuthConfig

PolicySpec == PolicyInit /\ [][PolicyNext]_vars

---------------------------------------------------------------------------
(* Properties of the gate *)

HonoDone == honoResp.kind \in {"next", "response"}
WorkersDone == workersResp.kind \in {"null", "response"}

BearerStrategy == config.AUTH_STRATEGY = "bearer"
SecretConfigured == ~Falsy(config.BEARER_TOKEN)
PassesChecks == validate(config, req) = None

\* the bearer token each adapter takes from the Authorization header
HonoPresented == IF Falsy(req.auth) THEN None ELSE HonoBearer(req.auth[1])
WorkersPresented == WorkersBearer(req.auth)

IsChallenge(resp) ==
    resp.kind = "response" /\ resp.status = 401 /\ resp.wwwAuth # None

\* the response carries the client's session id, or a generated one
SidEchoed(resp) ==
    IF req.sid # None
    THEN resp.sid = req.sid
    ELSE resp.sid # None /\ resp.sid[1] \in GenSids

\* C1: with strategy bearer, a request without an Authorization header that
\* passes the origin and protocol-version checks is answered by both adapters
\* with 401, a WWW-Authenticate header and the client's (or a generated)
\* session id, and is not forwarded.
C1_MissingAuthChallenged ==
    (BearerStrategy /\ req.auth = None /\ PassesChecks) =>
        /\ HonoDone => IsChallenge(honoResp) /\ SidEchoed(honoResp)
        /\ WorkersDone => IsChallenge(workersResp) /\ SidEchoed(workersResp)

C1_Witness ==
    /\ BearerStrategy /\ req.auth = None /\ PassesChecks
    /\ req.sid = None /\ req.origin # None /\ req.version # None
    /\ honoResp.status = 401 /\ honoResp.sid # None
    /\ workersResp.status = 401 /\ workersResp.sid # None

\* C2 as stated: with strategy bearer and a configured secret, a request whose
\* presented token equals the secret is admitted by both adapters whatever its
\* other headers are.
C2_MatchAdmitsAnyHeaders ==
    (BearerStrategy /\ SecretConfigured) =>
        /\ (HonoDone /\ HonoPresented = config.BEARER_TOKEN) => honoResp.kind = "next"
        /\ (WorkersDone /\ WorkersPresented = config.BEARER_TOKEN) =>
               workersResp.kind = "null"

\* C2 amended: with strategy bearer and a configured secret, a request that
\* passes the origin and protocol-version checks and whose token, as the
\* adapter extracts it, equals the secret is admitted, whatever its session
\* id header is.
C2_MatchAdmitsAfterChecks ==
    (BearerStrategy /\ SecretConfigured /\ PassesChecks) =>
        /\ (HonoDone /\ HonoPresented = config.BEARER_TOKEN) => honoResp.kind = "next"
        /\ (WorkersDone /\ WorkersPresented = config.BEARER_TOKEN) =>
               workersResp.kind = "null"

C2_Witness ==
    /\ BearerStrategy /\ SecretConfigured /\ PassesChecks
    /\ req.origin # None /\ req.version # None /\ req.sid = None
    /\ HonoPresented = config.BEARER_TOKEN /\ honoResp.kind = "next"
    /\ WorkersPresented = config.BEARER_TOKEN /\ workersResp.kind = "null"

InvalidToken(resp) ==
    IsChallenge(resp) /\ resp.message = Some("Invalid token")

\* C3 as stated: with strategy bearer and a configured secret, a request whose
\* presented token differs from the secret gets a 401 challenge with the
\* message "Invalid token" and is not forwarded.
C3_MismatchInvalidToken ==
    (BearerStrategy /\ SecretConfigured) =>
        /\ (HonoDone /\ ~Falsy(HonoPresented) /\ HonoPresented # config.BEARER_TOKEN)
               => InvalidToken(honoResp)
        /\ (WorkersDone /\ ~Falsy(WorkersPresented)
                /\ WorkersPresented # config.BEARER_TOKEN)
               => InvalidToken(workersResp)

\* C3 amended: with strategy bearer and a configured secret, a request that
\* passes the origin and protocol-version checks and whose token, as the
\* adapter extracts it, differs from the secret gets a 401 challenge with the
\* message "Invalid token" and is not forwarded.
C3_MismatchInvalidTokenAfterChecks ==
    (BearerStrategy /\ SecretConfigured /\ PassesChecks) =>
        /\ (HonoDone /\ ~Falsy(HonoPresented) /\ HonoPresented # config.BEARER_TOKEN)
               => InvalidToken(honoResp)
        /\ (WorkersDone /\ ~Falsy(WorkersPresented)
                /\ WorkersPresented # config.BEARER_TOKEN)
               => InvalidToken(workersResp)

C3_Witness ==
    /\ BearerStrategy /\ SecretConfigured /\ PassesChecks
    /\ ~Falsy(HonoPresented) /\ HonoPresented # config.BEARER_TOKEN
    /\ ~Falsy(WorkersPresented) /\ WorkersPresented # config.BEARER_TOKEN
    /\ InvalidToken(honoResp) /\ InvalidToken(workersResp)

Admitted == honoResp.kind = "next" /\ workersResp.kind = "null"

NoValidOrigin == req.origin = None \/ req.origin[1] \notin Loopback

\* C7 as stated: with strategy none, a request with no Authorization header
\* and no valid Origin header is admitted by both adapters.
C7_NoneAdmitsWithoutOrigin ==
    (config.AUTH_STRATEGY = "none" /\ req.auth = None /\ NoValidOrigin
        /\ HonoDone /\ WorkersDone) => Admitted

\* C7 amended: with strategy none, a request with no Authorization header is
\* admitted by both adapters exactly when it passes the origin and
\* protocol-version checks (a request with no Origin header passes the origin
\* check); the bearer checks are skipped.
C7_NoneAdmitsAfterChecks ==
    (config.AUTH_STRATEGY = "none" /\ req.auth = None) =>
        /\ HonoDone => (honoResp.kind = "next" <=> PassesChecks)
        /\ WorkersDone => (workersResp.kind = "null" <=> PassesChecks)

C7_Witness ==
    /\ config.AUTH_STRATEGY = "none" /\ req.auth = None
    /\ req.origin = None /\ req.version # None
    /\ Admitted

\* C8: every rejection, in both adapters and for every reason, carries the
\* Mcp-Session-Id header with the client's session id or a generated one.
C8_RejectionCarriesSid ==
    /\ (HonoDone /\ honoResp.kind = "response") => SidEchoed(honoResp)
    /\ (WorkersDone /\ workersResp.kind = "response") => SidEchoed(workersResp)

HonoFails ==
    \/ ~PassesChecks
    \/ BearerStrategy /\ (\/ Falsy(HonoPresented)
                          \/ ~SecretConfigured
                          \/ HonoPresented # config.BEARER_TOKEN)

WorkersFails ==
    \/ ~PassesChecks
    \/ BearerStrategy /\ (\/ Falsy(WorkersPresented)
                          \/ ~SecretConfigured
                          \/ WorkersPresented # config.BEARER_TOKEN)

\* C9: a request that fails the origin, protocol-version, bearer-presence or
\* bearer-match check, or meets a bearer strategy without a secret, gets a
\* 401 challenge in both adapters (never a 500, never admission).
C9_FailureIs401 ==
    /\ (HonoDone /\ HonoFails) => IsChallenge(honoResp)
    /\ (WorkersDone /\ WorkersFails) => IsChallenge(workersResp)

Decision(resp) == IF resp.kind = "response" THEN "reject" ELSE "admit"

\* C10: for every request and configuration the two adapters reach the same
\* decision and, on rejection, give the same status, WWW-Authenticate header,
\* session id header and message.
C10_AdaptersAgree ==
    (HonoDone /\ WorkersDone) =>
        /\ Decision(honoResp) = Decision(workersResp)
        /\ Decision(honoResp) = "reject" =>
              /\ honoResp.status = workersResp.status
              /\ honoResp.wwwAuth = workersResp.wwwAuth
              /\ honoResp.message = workersResp.message
              /\ (honoResp.sid = None) = (workersResp.sid = None)
              /\ req.sid # None => honoResp.sid = workersResp.sid


\* the first step of the validation order that a request fails under the
\* configuration, given the token the adapter extracted ("none": no step fails)
EarliestFailure(presented) ==
    IF validateOrigin(req, config.NODE_ENV = "development") # None THEN "origin"
    ELSE IF validateProtocolVersion(req, config.MCP_PROTOCOL_VERSION) # None
         THEN "version"
    ELSE IF ~BearerStrategy THEN "none"
    ELSE IF Falsy(presented) THEN "presence"
    ELSE IF ~SecretConfigured THEN "secret"
    ELSE IF presented # config.BEARER_TOKEN THEN "match"
    ELSE "none"

\* the messages that report each failing step
ReasonMessages(step) ==
    CASE step = "origin"   -> {Some(OriginError)}
      [] step = "version"  -> {Some(VersionError)}
      [] step = "presence" -> {Some("Bearer token required")}
      [] step = "secret"   -> {Some("Server misconfigured"),
                               Some("Server misconfigured: BEARER_TOKEN not set")}
      [] step = "match"    -> {Some("Invalid token")}
      [] OTHER             -> {}

ReportsEarliest(resp, presented) ==
    IF EarliestFailure(presented) = "none"
    THEN resp.kind # "response"
    ELSE resp.kind = "response" /\ resp.message \in ReasonMessages(EarliestFailure(presented))

\* C11: the gate validates in the order origin, protocol version, no-auth
\* bypass, bearer presence (absent or malformed Authorization: "token
\* required" message), configured secret (misconfiguration message), token
\* comparison, stops at the first failing step and reports that step's reason.
C11_EarliestFailureReported ==
    /\ HonoDone => ReportsEarliest(honoResp, HonoPresented)
    /\ WorkersDone => ReportsEarliest(workersResp, WorkersPresented)

\* C12: in the chained middleware a rejection is the terminal response and
\* next is not invoked; on every admission, with strategy bearer and strategy
\* none alike, an AuthContext is attached before next is invoked.
C12_AdmissionAttachesContext ==
    HonoDone =>
        /\ EarliestFailure(HonoPresented) # "none" => honoResp.kind = "response"
        /\ honoResp.kind = "next" => honoResp.authContext # None

\* C13: checkAuthAndChallenge returns null exactly when the request is
\* admitted and a 401 Response exactly when it is rejected; it never returns
\* null for a request that fails the origin, protocol-version or bearer checks.
C13_NullIffAdmitted ==
    WorkersDone =>
        /\ workersResp.kind = "null" <=> ~WorkersFails
        /\ workersResp.kind = "response" <=> WorkersFails
        /\ workersResp.kind = "response" => IsChallenge(workersResp)

C13_Witness ==
    /\ BearerStrategy /\ SecretConfigured /\ PassesChecks
    /\ req.auth # None /\ Falsy(WorkersPresented)
    /\ workersResp.kind = "response" /\ workersResp.status = 401

\* a failure the client can correct: the request fails a step of the gate
ClientCorrectable == EarliestFailure(HonoPresented) # "none"

\* C20: a 500 answer carries the JSON-RPC error envelope with a code distinct
\* from the challenge's, is not forwarded, and is produced only for
\* unexpected internal failures, never for a client-correctable rejection.
C20_InternalErrorOnlyUnexpected ==
    (HonoDone /\ honoResp.status = 500) =>
        /\ honoResp.kind = "response"
        /\ honoResp.code # ChallengeCode
        /\ ~ClientCorrectable

---------------------------------------------------------------------------
(* Properties of the session stores *)

SameId == prevOp.id = lastOp.id

\* C4: ensure(id) called twice in sequence leaves the record's created_at as
\* it was after the first call, for both stores, whatever time passes
\* between the calls and whatever the KV service does.
C4_EnsureTwiceKeepsCreatedAt ==
    (prevOp.op = "ensure" /\ lastOp.op = "ensure" /\ SameId /\ prevOp.rec # None)
        => lastOp.rec = prevOp.rec

\* C5: in MemorySessionStore a record written at time t is returned by get at
\* every time up to and including t + TTL and is absent after it; a get that
\* finds the entry expired removes it from the map.
C5_TtlBoundary ==
    (storeKind = "memory" /\ lastOp.op = "get") =>
        /\ (prevOp.op = "put" /\ SameId) =>
              IF lastOp.at <= prevOp.at + TtlMs
              THEN lastOp.rec = prevOp.rec
              ELSE lastOp.rec = None
        /\ lastOp.rec = None => lastOp.id \notin DOMAIN sessions

C5_Witness ==
    /\ storeKind = "memory"
    /\ prevOp.op = "put" /\ lastOp.op = "get" /\ SameId
    /\ lastOp.at = prevOp.at + TtlMs + 1
    /\ lastOp.rec = None

KvDownPutThenGet ==
    /\ storeKind = "kv"
    /\ prevOp.op = "put" /\ prevOp.kv = "kvThrows"
    /\ lastOp.op = "get" /\ lastOp.kv = "kvThrows"
    /\ SameId

\* C6 as stated: for a KvSessionStore whose KV service throws on every get
\* and put, put(id, r) followed by get(id) returns r.
C6_KvDownReturnsWritten ==
    KvDownPutThenGet => lastOp.rec = prevOp.rec

\* C6 amended: for a KvSessionStore that has a fallback store and whose KV
\* service throws on every get and put, put(id, r) followed by get(id) no
\* later than the TTL after the put returns r; without a fallback store the
\* get returns absent.
C6_KvDownServedByFallback ==
    KvDownPutThenGet =>
        /\ (hasFallback /\ lastOp.at <= prevOp.at + TtlMs) => lastOp.rec = prevOp.rec
        /\ ~hasFallback => lastOp.rec = None

C6_Witness ==
    /\ KvDownPutThenGet /\ hasFallback
    /\ lastOp.at = prevOp.at + TtlMs
    /\ lastOp.rec = prevOp.rec /\ lastOp.rec # None

\* C14: every entry of the MemorySessionStore map has expiresAt = (time of
\* the write that created it) + TTL: put replaces the record and sets
\* expiresAt = now + TTL, ensure on an absent id sets expiresAt = now + TTL,
\* and no step gives an entry any other expiry.
C14_ExpiresAtIsWriteTimePlusTtl ==
    [][storeKind = "memory" =>
        \A id \in SessionIds :
            /\ \A value \in Records(now) :
                   MemPut(id, value) =>
                       /\ id \in DOMAIN sessions'
                       /\ sessions'[id] = [record |-> value, expiresAt |-> now + TtlMs]
            /\ (MemEnsure(id) /\ id \notin DOMAIN sessions) =>
                   /\ id \in DOMAIN sessions'
                   /\ sessions'[id].expiresAt = now + TtlMs
            /\ id \in DOMAIN sessions' =>
                   \/ id \in DOMAIN sessions /\ sessions'[id] = sessions[id]
                   \/ sessions'[id].expiresAt = now + TtlMs]_vars

C14_Witness ==
    /\ storeKind = "memory"
    /\ prevOp.op = "delete" /\ lastOp.op = "ensure" /\ SameId
    /\ lastOp.at > 0
    /\ lastOp.id \in DOMAIN sessions
    /\ sessions[lastOp.id].expiresAt = lastOp.at + TtlMs

KvReadFails(id, outcome) ==
    \/ outcome \in {"kvThrows", "decryptThrows"}
    \/ kvRead(kvData, key(id), now) = None

\* C16: KvSessionStore.get does not raise; when the external read throws,
\* returns no value, or its data fails to decrypt or parse, get returns what
\* the fallback store's get returns (absent when the fallback has nothing).
C16_GetFallsBack ==
    [][\A id \in KvSessionIds, o \in GetOutcomes :
           (KvGet(id, o) /\ KvReadFails(id, o)) =>
               /\ lastOp'.rec = (IF hasFallback THEN memGet(sessions, id, now) ELSE None)
               /\ sessions' = (IF hasFallback THEN memGetMap(sessions, id, now)
                               ELSE sessions)]_vars

C16_Witness ==
    /\ storeKind = "kv" /\ hasFallback
    /\ lastOp.op = "get" /\ lastOp.kv = "decryptThrows"
    /\ kvRead(kvData, key(lastOp.id), lastOp.at) # None
    /\ lastOp.rec # None
    /\ lastOp.id \in DOMAIN sessions
    /\ Some(sessions[lastOp.id].record) = lastOp.rec

\* C17: KvSessionStore.delete does not raise when the external delete throws,
\* and in every case the id is removed from the fallback store.
C17_DeleteClearsFallback ==
    (storeKind = "kv" /\ lastOp.op = "delete") => lastOp.id \notin DOMAIN sessions

C17_Witness ==
    /\ storeKind = "kv" /\ hasFallback
    /\ prevOp.op = "put" /\ prevOp.kv = "ok" /\ SameId
    /\ lastOp.op = "delete" /\ lastOp.kv = "kvThrows"
    /\ lastOp.at <= prevOp.at + TtlMs
    /\ key(lastOp.id) \in DOMAIN kvData
    /\ lastOp.id \notin DOMAIN sessions

---------------------------------------------------------------------------
(* Properties of the auth strategy resolution *)

\* the strategy the rule gives for an environment
ClaimedStrategy(env) ==
    LET named == env.AUTH_STRATEGY # Undefined
                 /\ LowerWord(env.AUTH_STRATEGY[2]) = "none"
        off   == env.AUTH_ENABLED \in {JsBool("false"), JsString("false")}
        set   == env.BEARER_TOKEN # None /\ env.BEARER_TOKEN # Some(<<>>)
    IN  IF named \/ off THEN "none"
        ELSE IF set \/ parseBoolean(env.AUTH_ENABLED) THEN "bearer"
        ELSE "none"

\* C18: the resolved strategy is none when AUTH_STRATEGY is "none" in any
\* letter case or AUTH_ENABLED is false or "false"; otherwise bearer when
\* BEARER_TOKEN is set or AUTH_ENABLED parses to true; otherwise none. This
\* holds for the strategy parseConfig resolves and for the one the strategy
\* module resolves.
C18_ResolvedStrategy ==
    /\ policy.config # None =>
           policy.config[1].AUTH_STRATEGY = ClaimedStrategy(policy.env[1])
    /\ policy.strategyConfig # None =>
           policy.strategyConfig[1].type = ClaimedStrategy(policy.env[1])

\* C19: validateAuthConfig returns a list with exactly one error when the
\* strategy is bearer and the secret is missing or empty, and an empty list
\* in every other case (bearer with a non-empty secret, or none).
C19_OneErrorIffBearerWithoutSecret ==
    policy.errors # None =>
        LET cfg == policy.strategyConfig[1]
            noSecret == cfg.value = None \/ Len(cfg.value[1]) = 0
        IN  Len(policy.errors[1]) = (IF cfg.type = "bearer" /\ noSecret THEN 1 ELSE 0)

C19_Witness ==
    /\ policy.stage = "validated"
    /\ policy.strategyConfig[1].type = "bearer"
    /\ policy.strategyConfig[1].value = Some(<<>>)
    /\ Len(policy.errors[1]) = 1

---------------------------------------------------------------------------
(* Properties of the sweep, of isolation between ids and of call sequences *)

MemCall(id) ==
    \/ MemEnsure(id) \/ MemGet(id) \/ MemDelete(id)
    \/ \E value \in Records(now) : MemPut(id, value)

\* C23: in MemorySessionStore get, put, ensure and delete on session id A
\* leave the entry of every other id B as it was (record and expiresAt), and
\* after several puts to one id the entry is the one the last put wrote.
C23_OtherIdsUntouched ==
    [][\A a \in SessionIds :
           MemCall(a) =>
               /\ \A b \in SessionIds \ {a} :
                      /\ b \in DOMAIN sessions' <=> b \in DOMAIN sessions
                      /\ b \in DOMAIN sessions => sessions'[b] = sessions[b]
               /\ (lastOp.op = "put" /\ lastOp.id = a /\ lastOp'.op = "put") =>
                      sessions'[a] = [record |-> lastOp'.rec[1],
                                      expiresAt |-> now + TtlMs]]_vars

C23_Witness ==
    /\ storeKind = "memory"
    /\ prevOp.op = "put" /\ lastOp.op = "put" /\ SameId
    /\ prevOp.rec # lastOp.rec /\ prevOp.at < lastOp.at
    /\ \E b \in DOMAIN sessions : b # lastOp.id /\ sessions[b].expiresAt < now
    /\ sessions[lastOp.id].record = lastOp.rec[1]

\* C25: in MemorySessionStore, after ensure(id) returns, a get(id) at the
\* same time returns a record, for every prior state of the store, the state
\* where id has an expired entry that was not yet evicted included.
C25_EnsureThenGetPresent ==
    (storeKind = "memory" /\ prevOp.op = "ensure" /\ lastOp.op = "get" /\ SameId
        /\ lastOp.at = prevOp.at)
        => lastOp.rec # None

\* C27: for KvSessionStore, put(id, r) followed by get(id) with no write or
\* delete of id in between returns r, for every pattern of success and
\* failure of the KV service across the two calls and across earlier puts.
C27_KvPutThenGet ==
    (storeKind = "kv" /\ hasFallback /\ prevOp.op = "put" /\ lastOp.op = "get"
        /\ SameId /\ lastOp.at = prevOp.at)
        => lastOp.rec = prevOp.rec

\* C28: for KvSessionStore, after delete(id) and with no later write of id,
\* get(id) returns absent, also when the KV service's delete threw and the
\* error was ignored.
C28_KvDeleteThenGetAbsent ==
    (storeKind = "kv" /\ prevOp.op = "delete" /\ lastOp.op = "get" /\ SameId)
        => lastOp.rec = None

---------------------------------------------------------------------------
(* Properties that tie the configuration to the gate *)

\* the guard of the last branch of either adapter ("allow if auth provided"):
\* auth is required and the strategy is not bearer
FallbackBranch(cfg) ==
    /\ cfg.AUTH_ENABLED /\ cfg.AUTH_STRATEGY # "none"
    /\ cfg.AUTH_STRATEGY # "bearer"

\* C29: for every configuration parseConfig produces, AUTH_ENABLED is true
\* exactly when AUTH_STRATEGY is bearer; with AUTH_ENABLED true both adapters
\* admit a request only if its presented bearer token equals a non-empty
\* BEARER_TOKEN; the final "allow if auth provided" branch is never taken.
C29_EnabledIffBearer ==
    /\ config.AUTH_ENABLED <=> config.AUTH_STRATEGY = "bearer"
    /\ ~FallbackBranch(config)
    /\ (config.AUTH_ENABLED /\ honoResp.kind = "next") =>
           /\ config.BEARER_TOKEN # None /\ Len(config.BEARER_TOKEN[1]) > 0
           /\ HonoPresented = config.BEARER_TOKEN
    /\ (config.AUTH_ENABLED /\ workersResp.kind = "null") =>
           /\ config.BEARER_TOKEN # None /\ Len(config.BEARER_TOKEN[1]) > 0
           /\ WorkersPresented = config.BEARER_TOKEN

C29_Witness ==
    /\ config.AUTH_ENABLED /\ config.NODE_ENV = "production"
    /\ req.sid # None
    /\ honoResp.kind = "next" /\ workersResp.kind = "null"
    /\ HonoPresented = config.BEARER_TOKEN

\* C30: the resolver of the unified config reader and the resolver of the
\* auth-strategy module return the same strategy type for every combination
\* of AUTH_STRATEGY, AUTH_ENABLED and BEARER_TOKEN, none of them set included.
C30_ResolversAgree ==
    (policy.config # None /\ policy.strategyConfig # None) =>
        policy.strategyConfig[1].type = policy.config[1].AUTH_STRATEGY

---------------------------------------------------------------------------
(* Properties of the sweep timer *)

\* C24: a MemorySessionStore has at most one sweep timer; after stopCleanup
\* the timer stays stopped and the sweep never runs again, so entries leave
\* the map only through get or delete; a second stopCleanup changes nothing;
\* graceful shutdown has stopped the sweep when the process exits.
C24_SweepStopsForGood ==
    /\ [](/\ runtime.timers \in {0, 1}
          /\ runtime.timers = 1 <=> cleanupInterval
          /\ runtime.exited => ~cleanupInterval /\ runtime.timers = 0)
    /\ [][~cleanupInterval =>
            /\ ~cleanupInterval'
            /\ runtime'.timers = runtime.timers
            /\ \A id \in (DOMAIN sessions) \ (DOMAIN sessions') :
                   /\ lastOp'.op \in {"get", "delete"}
                   /\ lastOp'.id = id
                   /\ lastOp'.at = now]_vars

C24_Witness ==
    /\ storeKind = "memory"
    /\ ~cleanupInterval /\ ~runtime.exited
    /\ prevOp.op = "put" /\ lastOp.op = "get" /\ SameId
    /\ lastOp.rec = None /\ lastOp.id \notin DOMAIN sessions
    /\ \E id \in DOMAIN sessions : Expired(sessions[id], now)

---------------------------------------------------------------------------
(* Properties of concurrent ensure calls *)

\* C26: when two KvSessionStore.ensure(id) calls for the same initially
\* absent id interleave at their awaits, the record stored at the end has the
\* created_at written by the first put: the second call does not overwrite
\* the record the first call created.
C26_FirstEnsureWins ==
    (/\ \A c \in Callers : calls[c].pc = "returned"
     /\ prevOp.op = "put" /\ prevOp.kv = "ok"
     /\ lastOp.op = "put" /\ lastOp.kv = "ok"
     /\ SameId /\ now = lastOp.at)
        => Stored(storeKind, kvData, sessions, lastOp.id, now) = prevOp.rec

---------------------------------------------------------------------------
(* Properties of requests in sequence *)

\* C21: the gate's decision for a request depends only on the request's
\* headers and the configuration: whatever requests came before and whatever
\* the session store holds, a request is rejected exactly when its headers
\* fail a check, also when an earlier request with its session id was
\* admitted.
C21_DecisionFromHeadersOnly ==
    /\ HonoDone => Decision(honoResp) = (IF HonoFails THEN "reject" ELSE "admit")
    /\ WorkersDone => Decision(workersResp) = (IF WorkersFails THEN "reject" ELSE "admit")

C21_Witness ==
    /\ req.sid # None /\ req.sid[1] \in DOMAIN sessions
    /\ lastOp.op = "ensure" /\ lastOp.id = req.sid[1]
    /\ BearerStrategy /\ SecretConfigured /\ PassesChecks
    /\ ~Falsy(HonoPresented) /\ HonoPresented # config.BEARER_TOKEN
    /\ honoResp.kind = "response" /\ workersResp.kind = "response"

====
